---- MODULE Spec2Model ----
(***************************************************************************)
(* Elliptic curves y^2 = x^3 + a*x + b over a prime field: the number      *)
(* theory of prime.rs, the group law of curve.rs and the group analysis    *)
(* of group.rs, as operators computed the way the code computes them, and  *)
(* a caller that makes one call (or one construction followed by one       *)
(* method call) and records what came back.                                *)
(***************************************************************************)
EXTENDS Integers, Sequences, FiniteSets, TLC

VARIABLES pc, curve, ret, generator, cycle

vars == <<pc, curve, ret, generator, cycle>>

(***************************************************************************)
(* Bounds of the inputs the caller draws.                                  *)
(***************************************************************************)
\* primes (and non-primes, and non-positive moduli) up to MaxPrime
MaxPrime == 7
\* coefficients run from -MaxRep to MaxPrime + MaxRep, and the coordinates of
\* points from -MaxRep to prime - 1 + MaxRep, so that non-canonical
\* representatives occur
MaxRep == 1
\* exponents given to mod_pow run from -1 to MaxExp
MaxExp == 4
\* cap on the length of the list cyclic_group builds
MaxCycle == 16

Moduli == (0 - 1)..MaxPrime
Coefs == (0 - MaxRep)..(MaxPrime + MaxRep)
Bases == (0 - MaxPrime - MaxRep)..(2 * MaxPrime + MaxRep)
Exps == (0 - 1)..MaxExp

(***************************************************************************)
(* Result<T, E> and the error messages.                                    *)
(***************************************************************************)
Ok(v) == [ok |-> TRUE, val |-> v]
Err(e) == [ok |-> FALSE, err |-> e]

NOT_AN_NON_NEG == "not an non-negative integer..."
NOT_A_POS == "not a positive integer..."
NOT_A_PRIME == "not a prime number..."
NOT_AN_NON_SINGULAR == "not an non-singular..."
NOT_ON_THE_CURVE == "not on the curve..."

(***************************************************************************)
(* prime.rs: impl Prime<Num> for Num                                       *)
(***************************************************************************)
abs(n) == IF n < 0 THEN 0 - n ELSE n
min(a, b) == IF a <= b THEN a ELSE b
max(a, b) == IF a >= b THEN a ELSE b

\* the while loop of is_prime: trial division by odd, odd + 2, ...
RECURSIVE is_prime_loop(_, _)
is_prime_loop(self, odd) ==
  IF odd * odd <= self
    THEN IF self % odd = 0 THEN FALSE ELSE is_prime_loop(self, odd + 2)
    ELSE TRUE

is_prime(self) ==
  IF self <= 0 THEN Err(NOT_A_POS)
  ELSE IF self = 1 THEN Ok(FALSE)
  ELSE IF self = 2 THEN Ok(TRUE)
  ELSE IF self % 2 = 0 THEN Ok(FALSE)
  ELSE Ok(is_prime_loop(self, 3))

RECURSIVE inner_gcd(_, _)
inner_gcd(self, mx) ==
  IF self = 0 THEN mx ELSE inner_gcd(mx % self, self)

gcd(self, other) ==
  inner_gcd(min(abs(self), abs(other)), max(abs(self), abs(other)))

(***************************************************************************)
(* prime.rs: impl Field<Num> for Num                                       *)
(***************************************************************************)
\* the for loop of mod_pow: n more rounds of res *= self; res = res mod modulo
RECURSIVE mod_pow_loop(_, _, _, _)
mod_pow_loop(res, self, n, modulo) ==
  IF n <= 0 THEN res
  ELSE mod_pow_loop((res * self) % modulo, self, n - 1, modulo)

\* exponent 0 before base 0: 0^0 = 0
mod_pow_arms_swapped(self, exp, modulo) ==
  IF modulo < 1 THEN Err(NOT_A_POS)
  ELSE IF exp < 0 THEN Err(NOT_AN_NON_NEG)
  ELSE Ok(IF modulo = 1 THEN 0
          ELSE IF self = 0 THEN 0
          ELSE IF exp = 0 THEN 1
          ELSE mod_pow_loop(self % modulo, self, exp - 1, modulo))

mod_pow(self, exp, modulo) ==
  IF modulo < 1 THEN Err(NOT_A_POS)
  ELSE IF exp < 0 THEN Err(NOT_AN_NON_NEG)
  ELSE Ok(IF modulo = 1 THEN 0
          ELSE IF exp = 0 THEN 1
          ELSE IF self = 0 THEN 0
          ELSE mod_pow_loop(self % modulo, self, exp - 1, modulo))

\* the for loop of qr_mod_prime, from i up to self - 1
RECURSIVE qr_mod_prime_loop(_, _, _)
qr_mod_prime_loop(self, i, qrs) ==
  IF i >= self THEN Ok(qrs)
  ELSE LET r == mod_pow(i, (self - 1) \div 2, self)
       IN  IF ~r.ok THEN Err(r.err)
           ELSE qr_mod_prime_loop(self, i + 1,
                                  IF r.val = 1 THEN Append(qrs, i) ELSE qrs)

qr_mod_prime(self) ==
  LET pr == is_prime(self)
  IN  IF ~pr.ok THEN Err(pr.err)
      ELSE IF ~pr.val THEN Err(NOT_A_PRIME)
      ELSE qr_mod_prime_loop(self, 2, <<0, 1>>)

contains(seq, v) == \E k \in 1..Len(seq) : seq[k] = v

legendre(self, prime) ==
  LET qrs == qr_mod_prime(prime)
  IN  IF ~qrs.ok THEN Err(qrs.err)
      ELSE IF gcd(self, prime) # 1 THEN Ok(0)
      ELSE Ok(IF contains(qrs.val, self) THEN 1 ELSE 0 - 1)

(***************************************************************************)
(* curve.rs: Point, EllipticCurve                                          *)
(***************************************************************************)
Inf == [tag |-> "Inf", x |-> 0, y |-> 0]
Affine(x, y) == [tag |-> "Affine", x |-> x, y |-> y]
is_inf(point) == point.tag = "Inf"

EllipticCurve(coef1, coef0, prime) ==
  [coef1 |-> coef1, coef0 |-> coef0, prime |-> prime]

new(coef1, coef0, prime) ==
  LET pr == is_prime(prime)
  IN  IF ~pr.ok THEN Err(pr.err)
      ELSE IF ~pr.val THEN Err(NOT_A_PRIME)
      ELSE IF coef1 = 0 /\ coef0 = 0 THEN Err(NOT_AN_NON_SINGULAR)
      ELSE Ok(EllipticCurve(coef1 % prime, coef0 % prime, prime))

(***************************************************************************)
(* curve.rs: impl Op for EllipticCurve                                     *)
(***************************************************************************)
lhs(C, y) == mod_pow(y, 2, C.prime)

rhs(C, x) ==
  LET c == mod_pow(x, 3, C.prime)
  IN  IF ~c.ok THEN Err(c.err)
      ELSE Ok((c.val + ((C.coef1 * x) % C.prime) + C.coef0) % C.prime)

is_on(C, point) ==
  IF is_inf(point) THEN TRUE ELSE lhs(C, point.y) = rhs(C, point.x)

represent(C, point) ==
  IF ~is_on(C, point) THEN Err(NOT_ON_THE_CURVE)
  ELSE Ok(IF is_inf(point) THEN Inf
          ELSE Affine(point.x % C.prime, point.y % C.prime))

\* the negation of y left out
inv_not_negated(C, point) ==
  IF ~is_on(C, point) THEN Err(NOT_ON_THE_CURVE)
  ELSE IF is_inf(point) THEN Ok(Inf)
  ELSE represent(C, Affine(point.x, point.y))

inv(C, point) ==
  IF ~is_on(C, point) THEN Err(NOT_ON_THE_CURVE)
  ELSE IF is_inf(point) THEN Ok(Inf)
  ELSE represent(C, Affine(point.x, 0 - point.y))

\* sum, the arm of two affine points with different x; the point
\* Affine(x2, y2) is a value bound once and then handed to inv
sum_chord(C, x0, y0, x1, y1) ==
  LET p == C.prime
      i == mod_pow(x1 - x0, p - 2, p)
  IN  IF ~i.ok THEN Err(i.err)
      ELSE LET diff == ((y1 - y0) * i.val) % p
               sq == mod_pow(diff, 2, p)
           IN  IF ~sq.ok THEN Err(sq.err)
               ELSE LET x2 == sq.val - x0 - x1
                        y2 == diff * (x2 - x0) + y0
                    IN  CHOOSE r \in {inv(C, pt) : pt \in {Affine(x2, y2)}} :
                          TRUE

\* sum, the arm of two affine points with the same x and y0 + y1 /= 0; the
\* point Affine(x2, y2) is a value bound once and then handed to inv
sum_double(C, x0, y0) ==
  LET p == C.prime
      sq0 == mod_pow(x0, 2, p)
      i == mod_pow(2 * y0, p - 2, p)
  IN  IF ~sq0.ok THEN Err(sq0.err)
      ELSE IF ~i.ok THEN Err(i.err)
      ELSE LET diff == ((3 * sq0.val + C.coef1) * i.val) % p
               sq == mod_pow(diff, 2, p)
           IN  IF ~sq.ok THEN Err(sq.err)
               ELSE LET x2 == sq.val - ((2 * x0) % p)
                        y2 == ((diff * (x2 - x0)) % p) + y0
                    IN  CHOOSE r \in {inv(C, pt) : pt \in {Affine(x2, y2)}} :
                          TRUE

\* the first operand returned as given when the second is Inf
sum_no_represent(C, pt0, pt1) ==
  IF ~is_on(C, pt0) \/ ~is_on(C, pt1) THEN Err(NOT_ON_THE_CURVE)
  ELSE IF is_inf(pt0) THEN represent(C, pt1)
  ELSE IF is_inf(pt1) THEN Ok(pt0)
  ELSE IF (pt0.x - pt1.x) % C.prime # 0
    THEN sum_chord(C, pt0.x, pt0.y, pt1.x, pt1.y)
  ELSE IF (pt0.y + pt1.y) % C.prime = 0 THEN Ok(Inf)
  ELSE sum_double(C, pt0.x, pt0.y)

sum(C, pt0, pt1) ==
  IF ~is_on(C, pt0) \/ ~is_on(C, pt1) THEN Err(NOT_ON_THE_CURVE)
  ELSE IF is_inf(pt0) THEN represent(C, pt1)
  ELSE IF is_inf(pt1) THEN represent(C, pt0)
  ELSE IF (pt0.x - pt1.x) % C.prime # 0
    THEN sum_chord(C, pt0.x, pt0.y, pt1.x, pt1.y)
  ELSE IF (pt0.y + pt1.y) % C.prime = 0 THEN Ok(Inf)
  ELSE sum_double(C, pt0.x, pt0.y)

(***************************************************************************)
(* group.rs: impl Group for EllipticCurve                                  *)
(***************************************************************************)
\* the for loop of order, from i up to prime - 1
RECURSIVE order_loop(_, _, _)
order_loop(C, i, ord) ==
  IF i >= C.prime THEN Ok(ord)
  ELSE LET r == rhs(C, i)
       IN  IF ~r.ok THEN Err(r.err)
           ELSE LET l == legendre(r.val, C.prime)
                IN  IF ~l.ok THEN Err(l.err)
                    ELSE order_loop(C, i + 1, ord + l.val)

order(C) == order_loop(C, 0, 1 + C.prime)

\* the nested for loops of solutions, k = x * prime + y
RECURSIVE solutions_loop(_, _, _)
solutions_loop(C, k, points) ==
  IF k >= C.prime * C.prime THEN Ok(points)
  ELSE LET x == k \div C.prime
           y == k % C.prime
       IN  solutions_loop(C, k + 1,
             IF lhs(C, y) = rhs(C, x) THEN Append(points, Affine(x, y))
             ELSE points)

solutions(C) == solutions_loop(C, 0, <<Inf>>)

\* the last element added to itself instead of to the generator
cyclic_group_push_last_twice(C, gen, cyc) ==
  sum(C, cyc[Len(cyc)], cyc[Len(cyc)])

\* one round of the loop of cyclic_group: the push
cyclic_group_push(C, gen, cyc) == sum(C, gen, cyc[Len(cyc)])

\* the loop of cyclic_group; a list of MaxCycle points stands for a loop
\* that has not ended by then
RECURSIVE cyclic_group_loop(_, _, _)
cyclic_group_loop(C, gen, cyc) ==
  IF Len(cyc) >= MaxCycle THEN Err("diverges")
  ELSE LET s == cyclic_group_push(C, gen, cyc)
       IN  IF ~s.ok THEN Err(s.err)
           ELSE IF is_inf(s.val) THEN Ok(Append(cyc, s.val))
           ELSE cyclic_group_loop(C, gen, Append(cyc, s.val))

\* cyclic_group up to its loop: an early return, or the list the loop starts from
cyclic_group_start(C, gen) ==
  IF ~is_on(C, gen) THEN [return |-> TRUE, res |-> Err(NOT_ON_THE_CURVE)]
  ELSE IF is_inf(gen) THEN [return |-> TRUE, res |-> Ok(<<Inf>>)]
  ELSE LET r == represent(C, gen)
       IN  IF ~r.ok THEN [return |-> TRUE, res |-> Err(r.err)]
           ELSE [return |-> FALSE, res |-> Ok(<<r.val>>)]

cyclic_group(C, gen) ==
  LET st == cyclic_group_start(C, gen)
  IN  IF st.return THEN st.res ELSE cyclic_group_loop(C, gen, st.res.val)

\* the for loop of decomposition over the solutions, from the k-th on
RECURSIVE decomposition_loop(_, _, _, _)
decomposition_loop(C, sols, k, max_len) ==
  IF k > Len(sols) THEN Ok(max_len)
  ELSE LET g == cyclic_group(C, sols[k])
       IN  IF ~g.ok THEN Err(g.err)
           ELSE decomposition_loop(C, sols, k + 1, max(Len(g.val), max_len))

decomposition(C) ==
  LET sols == solutions(C)
  IN  IF ~sols.ok THEN Err(sols.err)
      ELSE LET m == decomposition_loop(C, sols.val, 1, 0)
           IN  IF ~m.ok THEN Err(m.err)
               ELSE LET o == order(C)
                    IN  IF ~o.ok THEN Err(o.err)
                        ELSE Ok(<<o.val \div m.val, m.val>>)

(***************************************************************************)
(* The caller: one call of a function of prime.rs, or one construction     *)
(* and then one call of a method of the curve.  pc is its position: start, *)
(* built (a curve is constructed), loop (inside the loop of cyclic_group), *)
(* done.                                                                   *)
(***************************************************************************)
Coords(C) == (0 - MaxRep)..(C.prime - 1 + MaxRep)
Points(C) == {Inf} \cup {Affine(x, y) : x \in Coords(C), y \in Coords(C)}
PointsOn(C) == {P \in Points(C) : is_on(C, P)}

Init ==
  /\ pc = "start"
  /\ curve = Err("none")
  /\ ret = [op |-> "none"]
  /\ generator = Inf
  /\ cycle = <<>>

CallModPow(x, e, m) ==
  /\ pc = "start"
  /\ pc' = "done"
  /\ ret' = [op |-> "mod_pow", self |-> x, exp |-> e, modulo |-> m,
             res |-> mod_pow(x, e, m)]
  /\ UNCHANGED <<curve, generator, cycle>>

CallLegendre(a, p) ==
  /\ pc = "start"
  /\ pc' = "done"
  /\ ret' = [op |-> "legendre", self |-> a, prime |-> p,
             res |-> legendre(a, p)]
  /\ UNCHANGED <<curve, generator, cycle>>

New(a, b, p) ==
  /\ pc = "start"
  /\ curve' = new(a, b, p)
  /\ pc' = IF curve'.ok THEN "built" ELSE "done"
  /\ ret' = [op |-> "new"]
  /\ UNCHANGED <<generator, cycle>>

CallInv(P) ==
  /\ pc = "built"
  /\ pc' = "done"
  /\ ret' = [op |-> "inv", point |-> P, res |-> inv(curve.val, P)]
  /\ UNCHANGED <<curve, generator, cycle>>

CallSum(P, Q) ==
  /\ pc = "built"
  /\ pc' = "done"
  /\ ret' = [op |-> "sum", pt0 |-> P, pt1 |-> Q, res |-> sum(curve.val, P, Q)]
  /\ UNCHANGED <<curve, generator, cycle>>

CallOrder ==
  /\ pc = "built"
  /\ pc' = "done"
  /\ ret' = [op |-> "order", res |-> order(curve.val)]
  /\ UNCHANGED <<curve, generator, cycle>>

CallSolutions ==
  /\ pc = "built"
  /\ pc' = "done"
  /\ ret' = [op |-> "solutions", res |-> solutions(curve.val)]
  /\ UNCHANGED <<curve, generator, cycle>>

CallDecomposition ==
  /\ pc = "built"
  /\ pc' = "done"
  /\ ret' = [op |-> "decomposition", res |-> decomposition(curve.val)]
  /\ UNCHANGED <<curve, generator, cycle>>

\* cyclic_group from its entry to the first round of its loop
CallCyclicGroup(G) ==
  /\ pc = "built"
  /\ generator' = G
  /\ LET st == cyclic_group_start(curve.val, G)
     IN  IF st.return
           THEN /\ pc' = "done"
                /\ cycle' = <<>>
                /\ ret' = [op |-> "cyclic_group", res |-> st.res]
           ELSE /\ pc' = "loop"
                /\ cycle' = st.res.val
                /\ ret' = [op |-> "cyclic_group"]
  /\ UNCHANGED curve

\* one round of the loop of cyclic_group: push, then break and return on Inf
CyclicGroupRound ==
  /\ pc = "loop"
  /\ Len(cycle) < MaxCycle
  /\ LET s == cyclic_group_push(curve.val, generator, cycle)
     IN  IF ~s.ok
           THEN /\ pc' = "done"
                /\ cycle' = cycle
                /\ ret' = [op |-> "cyclic_group", res |-> Err(s.err)]
           ELSE /\ cycle' = Append(cycle, s.val)
                /\ IF is_inf(s.val)
                     THEN /\ pc' = "done"
                          /\ ret' = [op |-> "cyclic_group", res |-> Ok(cycle')]
                     ELSE /\ pc' = "loop"
                          /\ ret' = ret
  /\ UNCHANGED <<curve, generator>>

Next ==
  \/ \E x \in Bases, e \in Exps, m \in Moduli : CallModPow(x, e, m)
  \/ \E a \in Bases, p \in Moduli : CallLegendre(a, p)
  \/ \E a \in Coefs, b \in Coefs, p \in Moduli : New(a, b, p)
  \/ pc = "built" /\ \E P \in Points(curve.val) : CallInv(P)
  \/ pc = "built" /\ \E P \in PointsOn(curve.val), Q \in PointsOn(curve.val) :
                        CallSum(P, Q)
  \/ CallOrder
  \/ CallSolutions
  \/ CallDecomposition
  \/ pc = "built" /\ \E G \in Points(curve.val) : CallCyclicGroup(G)
  \/ CyclicGroupRound

Spec == Init /\ [][Next]_vars

\* the caller that constructs a curve and calls cyclic_group
NextCyclic ==
  \/ \E a \in Coefs, b \in Coefs, p \in Moduli : New(a, b, p)
  \/ pc = "built" /\ \E G \in Points(curve.val) : CallCyclicGroup(G)
  \/ CyclicGroupRound

\* the loop of cyclic_group runs on: nothing suspends it
LiveSpec == Init /\ [][NextCyclic]_vars /\ WF_vars(CyclicGroupRound)

(***************************************************************************)
(* What the claims speak of, stated apart from the code.                   *)
(***************************************************************************)
IsPrimeNumber(n) == n > 1 /\ \A d \in 2..(n - 1) : n % d # 0

\* the residue symbol of a modulo the prime p
ResidueSymbol(a, p) ==
  IF a % p = 0 THEN 0
  ELSE IF \E y \in 0..(p - 1) : (y * y - a) % p = 0 THEN 1
  ELSE 0 - 1

Canonical(C, P) ==
  is_inf(P) \/ (P.x \in 0..(C.prime - 1) /\ P.y \in 0..(C.prime - 1))

\* the largest length of cyclic_group(S) over the solutions S
MaxCyclicLen(C) ==
  LET sols == solutions(C).val
      lens == {Len(cyclic_group(C, sols[k]).val) : k \in 1..Len(sols)}
  IN  CHOOSE m \in lens : \A n \in lens : n <= m

\* C1: order() returns the number of elements of solutions(), for every
\* curve new accepts, p = 2 included.
OrderEqualsSolutionCount ==
  (pc = "done" /\ ret.op = "order") =>
    /\ ret.res.ok
    /\ solutions(curve.val).ok
    /\ ret.res.val = Len(solutions(curve.val).val)

\* C2: the length of cyclic_group(G) divides order(), for every curve new
\* accepts and every generator G on it.
CyclicLengthDividesOrder ==
  (pc = "done" /\ ret.op = "cyclic_group" /\ is_on(curve.val, generator)) =>
    /\ ret.res.ok
    /\ order(curve.val).ok
    /\ order(curve.val).val % Len(ret.res.val) = 0

\* C3: for points P and Q on the curve, sum(P, Q) and sum(Q, P) both succeed
\* and return the same point.
SumCommutes ==
  ret.op = "sum" =>
    /\ ret.res.ok
    /\ sum(curve.val, ret.pt1, ret.pt0) = ret.res

\* a chord from a non-canonical representative to a point of another x, p > 3
SumCommutesWitness ==
  /\ ret.op = "sum"
  /\ ret.res.ok
  /\ ~is_inf(ret.pt0) /\ ~is_inf(ret.pt1) /\ ~is_inf(ret.res.val)
  /\ (ret.pt0.x - ret.pt1.x) % curve.val.prime # 0
  /\ ~Canonical(curve.val, ret.pt0)
  /\ curve.val.prime > 3

\* C4: for every point P on the curve, inv(P) succeeds and sum(P, inv(P))
\* is Inf.
InverseLaw ==
  (ret.op = "inv" /\ is_on(curve.val, ret.point)) =>
    /\ ret.res.ok
    /\ sum(curve.val, ret.point, ret.res.val) = Ok(Inf)

\* a non-canonical affine point whose y is not 0 modulo p
InverseLawWitness ==
  /\ ret.op = "inv"
  /\ ret.res.ok
  /\ ~is_inf(ret.point)
  /\ ret.point.y % curve.val.prime # 0
  /\ ~Canonical(curve.val, ret.point)
  /\ ret.res.val # ret.point

\* C5: a curve that new returns has a prime modulus, both coefficients in
\* [0, p), and not both coefficients 0.
ConstructionInvariant ==
  curve.ok =>
    /\ IsPrimeNumber(curve.val.prime)
    /\ curve.val.coef1 \in 0..(curve.val.prime - 1)
    /\ curve.val.coef0 \in 0..(curve.val.prime - 1)
    /\ ~(curve.val.coef1 = 0 /\ curve.val.coef0 = 0)

\* C6: for a prime p and any integer a, legendre(a, p) is 0 when p divides
\* a, 1 when a is a non-zero square modulo p, and -1 otherwise.
LegendreIsResidueSymbol ==
  (ret.op = "legendre" /\ IsPrimeNumber(ret.prime)) =>
    ret.res = Ok(ResidueSymbol(ret.self, ret.prime))

\* C7: mod_pow(x, 0, m) succeeds and returns 1 for every x and every m >= 1.
ModPowZeroIsOne ==
  (ret.op = "mod_pow" /\ ret.exp = 0 /\ ret.modulo >= 1) =>
    ret.res = Ok(1)

\* C7, amended: mod_pow(x, 0, m) succeeds for every x and every m >= 1, and
\* returns 1 when m >= 2 and 0 when m = 1.
ModPowZeroIsOneModM ==
  (ret.op = "mod_pow" /\ ret.exp = 0 /\ ret.modulo >= 1) =>
    ret.res = Ok(IF ret.modulo = 1 THEN 0 ELSE 1)

\* base 0 to the exponent 0, modulo m >= 2
ModPowZeroWitness ==
  /\ ret.op = "mod_pow"
  /\ ret.exp = 0
  /\ ret.self = 0
  /\ ret.modulo >= 2
  /\ ret.res = Ok(1)

\* C8: decomposition() succeeds with (cofactor, max_order), max_order the
\* largest length of cyclic_group(S) over the solutions S, and
\* cofactor * max_order = order().
DecompositionFactorsOrder ==
  ret.op = "decomposition" =>
    /\ ret.res.ok
    /\ ret.res.val[2] = MaxCyclicLen(curve.val)
    /\ ret.res.val[1] * ret.res.val[2] = order(curve.val).val

\* the list of cyclic_group, inside its loop and on its return, for an affine
\* generator on the curve
CyclicGroupOrbit ==
  ((pc = "loop" \/ (pc = "done" /\ ret.op = "cyclic_group"))
      /\ ~is_inf(generator) /\ is_on(curve.val, generator)) =>
    /\ Len(cycle) >= 1
    /\ Ok(cycle[1]) = represent(curve.val, generator)
    /\ \A k \in 2..Len(cycle) :
         Ok(cycle[k]) = sum(curve.val, generator, cycle[k - 1])
    /\ \A k \in 1..(Len(cycle) - 1) : ~is_inf(cycle[k])
    /\ \A j \in 1..Len(cycle), k \in 1..Len(cycle) :
         cycle[j] = cycle[k] => j = k
    /\ pc = "loop" => ~is_inf(cycle[Len(cycle)])
    /\ pc = "done" => /\ ret.res = Ok(cycle)
                      /\ is_inf(cycle[Len(cycle)])

\* C9: for an affine generator G on the curve the loop of cyclic_group ends,
\* and the list starts with represent(G), continues with sum(G, previous),
\* ends with Inf, holds Inf nowhere else and holds no point twice.
CyclicGroupTerminatesWithOrbit ==
  /\ []CyclicGroupOrbit
  /\ (pc = "loop") ~> (pc = "done")

\* a returned list of at least three points from a non-canonical generator
CyclicGroupWitness ==
  /\ pc = "done"
  /\ ret.op = "cyclic_group"
  /\ ret.res.ok
  /\ ~is_inf(generator)
  /\ ~Canonical(curve.val, generator)
  /\ Len(ret.res.val) >= 3
  /\ ret.res.val = cycle

\* C10: for points P, Q, R on a curve new accepts, sum(P, Q) succeeds with a
\* canonical point on the curve and sum(sum(P, Q), R) = sum(P, sum(Q, R)).
GroupAxioms ==
  ret.op = "sum" =>
    /\ ret.res.ok
    /\ Canonical(curve.val, ret.res.val)
    /\ is_on(curve.val, ret.res.val)
    /\ \A R \in PointsOn(curve.val) :
         LET qr == sum(curve.val, ret.pt1, R)
         IN  /\ qr.ok
             /\ sum(curve.val, ret.res.val, R) = sum(curve.val, ret.pt0, qr.val)
====
